---- MODULE Spec2Model ----
(***************************************************************************)
(* Model of the Oura MCP server (src/server.py): the OuraClient class      *)
(* (one HTTP client per instance, four fetch-and-transform methods, the    *)
(* duration and time formatters), parse_date, validate_oura_token,         *)
(* create_oura_client and the six tool functions registered with FastMCP.  *)
(*                                                                         *)
(* JSON values are tagged records: [int |-> n], [str |-> s],               *)
(* [null |-> TRUE], [obj |-> f] (f a function from key strings to JSON     *)
(* values) and [list |-> seq].  Python strings are TLA+ strings.  A raised *)
(* exception is a record [exc |-> class, msg |-> text].                    *)
(***************************************************************************)
EXTENDS Integers, Sequences, FiniteSets, TLC

VARIABLES
    pc,            \* per invocation: position in the tool function
    tool,          \* per invocation: which of the six tools was called
    access_token,  \* per invocation: the access_token argument
    start_date,    \* per invocation: the start_date argument (range tools)
    end_date,      \* per invocation: the end_date argument (range tools)
    probe,         \* per invocation: the OuraClient built by validate_oura_token
    oura,          \* per invocation: the OuraClient built by create_oura_client
    sent,          \* per invocation: the GET requests its clients have issued
    response,      \* per invocation: the last httpx response it received
    result,        \* per invocation: the value the tool function returned
    cause,         \* per invocation: the failure that ended it (history)
    fnPc,          \* pure-function harness: position
    fnIn,          \* pure-function harness: the input
    fnOut          \* pure-function harness: the output

vars == <<pc, tool, access_token, start_date, end_date, probe, oura, sent,
          response, result, cause, fnPc, fnIn, fnOut>>

toolVars == <<pc, tool, access_token, start_date, end_date, probe, oura, sent,
              response, result, cause>>

fnVars == <<fnPc, fnIn, fnOut>>

----------------------------------------------------------------------------
(* Bounds of the model *)

\* Largest magnitude of a duration given to _format_duration directly.
MaxSeconds == 7390

\* Number of concurrently running tool invocations.
NInv == 2

\* Longest "data" array of a vendor payload.
MaxRecords == 2

----------------------------------------------------------------------------
(* Python values *)

None == [null |-> TRUE]

JInt(n) == [int |-> n]

JStr(s) == [str |-> s]

JObj(f) == [obj |-> f]

EmptyDict == JObj(<<>>)

IsInt(v) == DOMAIN v = {"int"}

IsStr(v) == DOMAIN v = {"str"}

IsNone(v) == DOMAIN v = {"null"}

IsObj(v) == DOMAIN v = {"obj"}

IsList(v) == DOMAIN v = {"list"}

\* Python truthiness of a JSON value (the "if readiness" and "not access_token" tests).
Truthy(v) ==
    IF IsInt(v) THEN v.int # 0
    ELSE IF IsStr(v) THEN v.str # ""
    ELSE IF IsObj(v) THEN DOMAIN v.obj # {}
    ELSE IF IsList(v) THEN v.list # <<>>
    ELSE FALSE

\* dict.get(key, default)
Get(d, key, default) == IF key \in DOMAIN d THEN d[key] ELSE default

Raise(class, text) == [exc |-> class, msg |-> text]

Raised(r) == "exc" \in DOMAIN r

Return(v) == [val |-> v]

\* Python's exception classes that the code can meet, each with its base class.
BaseOf(class) ==
    CASE class = "JSONDecodeError" -> "ValueError"
      [] class = "ValueError" -> "Exception"
      [] class = "TypeError" -> "Exception"
      [] class = "AttributeError" -> "Exception"
      [] class = "ConnectError" -> "TransportError"
      [] class = "ReadTimeout" -> "TransportError"
      [] class = "TransportError" -> "Exception"
      [] class = "Exception" -> "BaseException"
      [] OTHER -> "object"

RECURSIVE IsInstance(_, _)
IsInstance(class, of) ==
    IF class = of THEN TRUE
    ELSE IF class \in {"BaseException", "object"} THEN FALSE
    ELSE IsInstance(BaseOf(class), of)

----------------------------------------------------------------------------
(* String helpers: what the Python string operations used by the code do *)

Digits == "0123456789"

CharAt(s, i) == SubSeq(s, i, i)

IsDigit(c) == \E d \in 1..10 : CharAt(Digits, d) = c

DigitVal(c) == (CHOOSE d \in 1..10 : CharAt(Digits, d) = c) - 1

AllDigits(s) == Len(s) > 0 /\ \A i \in 1..Len(s) : IsDigit(CharAt(s, i))

RECURSIVE ParseNat(_)
ParseNat(s) ==
    IF Len(s) = 0 THEN 0
    ELSE ParseNat(SubSeq(s, 1, Len(s) - 1)) * 10 + DigitVal(CharAt(s, Len(s)))

\* str.endswith
EndsWith(s, suffix) ==
    /\ Len(s) >= Len(suffix)
    /\ SubSeq(s, Len(s) - Len(suffix) + 1, Len(s)) = suffix

\* str.find: index (from 1) of the first occurrence of sep in s, 0 if none
Find(s, sep) ==
    LET hits == {i \in 1..(Len(s) - Len(sep) + 1) :
                    SubSeq(s, i, i + Len(sep) - 1) = sep}
    IN IF hits = {} THEN 0 ELSE CHOOSE i \in hits : \A j \in hits : i <= j

\* str.split(sep)
RECURSIVE Split(_, _)
Split(s, sep) ==
    LET at == Find(s, sep)
    IN IF at = 0 THEN <<s>>
       ELSE <<SubSeq(s, 1, at - 1)>> \o Split(SubSeq(s, at + Len(sep), Len(s)), sep)

\* sep.join(parts)
RECURSIVE Join(_, _)
Join(parts, sep) ==
    IF parts = <<>> THEN ""
    ELSE IF Len(parts) = 1 THEN parts[1]
    ELSE parts[1] \o sep \o Join(Tail(parts), sep)

\* f"{n:02d}" for n >= 0
Pad2(n) == IF n < 10 THEN "0" \o ToString(n) ELSE ToString(n)

\* f"{n:04d}" for n >= 0
Pad4(n) ==
    IF n < 10 THEN "000" \o ToString(n)
    ELSE IF n < 100 THEN "00" \o ToString(n)
    ELSE IF n < 1000 THEN "0" \o ToString(n)
    ELSE ToString(n)

----------------------------------------------------------------------------
(* OuraClient._format_duration and OuraClient._format_time *)

\* f"{n} hour{'s' if n != 1 else ''}"
Plural(n, noun) == ToString(n) \o " " \o noun \o (IF n # 1 THEN "s" ELSE "")

\* DurationParts with the minutes taken from the whole input instead of the
\* remainder the hours leave.
DurationPartsNoRemainder(seconds) ==
    [hours |-> seconds \div 3600, minutes |-> seconds \div 60, seconds |-> seconds % 60]

\* The three components divmod leaves (Python's divmod floors).
DurationParts(seconds) ==
    LET hours == seconds \div 3600
        remainder == seconds % 3600
    IN [hours |-> hours, minutes |-> remainder \div 60, seconds |-> remainder % 60]

_format_duration(seconds) ==
    LET c == DurationParts(seconds)
        parts == (IF c.hours > 0 THEN <<Plural(c.hours, "hour")>> ELSE <<>>)
                 \o (IF c.minutes > 0 THEN <<Plural(c.minutes, "minute")>> ELSE <<>>)
                 \o (IF c.seconds > 0 THEN <<Plural(c.seconds, "second")>> ELSE <<>>)
    IN IF parts = <<>> THEN "0 seconds" ELSE Join(parts, ", ")

\* self._format_duration(v) on a JSON value: divmod raises TypeError on a non-number.
FormatDurationValue(v) ==
    IF IsInt(v) THEN Return(JStr(_format_duration(v.int)))
    ELSE Raise("TypeError", "unsupported operand type(s) for divmod()")

\* str.replace(old, new) for a one-character old
RECURSIVE Replace(_, _, _)
Replace(s, old, new) ==
    IF Len(s) = 0 THEN ""
    ELSE (IF CharAt(s, 1) = old THEN new ELSE CharAt(s, 1))
         \o Replace(SubSeq(s, 2, Len(s)), old, new)

IsLeap(y) == (y % 4 = 0 /\ y % 100 # 0) \/ y % 400 = 0

DaysInMonth(y, m) ==
    IF m = 2 THEN (IF IsLeap(y) THEN 29 ELSE 28)
    ELSE IF m \in {4, 6, 9, 11} THEN 30
    ELSE 31

\* date.fromisoformat(s): the YYYY-MM-DD form; ValueError on anything else.
fromisoformat(s) ==
    IF /\ Len(s) = 10
       /\ CharAt(s, 5) = "-"
       /\ CharAt(s, 8) = "-"
       /\ AllDigits(SubSeq(s, 1, 4))
       /\ AllDigits(SubSeq(s, 6, 7))
       /\ AllDigits(SubSeq(s, 9, 10))
    THEN LET y == ParseNat(SubSeq(s, 1, 4))
             m == ParseNat(SubSeq(s, 6, 7))
             d == ParseNat(SubSeq(s, 9, 10))
         IN IF y >= 1 /\ m \in 1..12 /\ d >= 1 /\ d <= DaysInMonth(y, m)
            THEN Return([year |-> y, month |-> m, day |-> d])
            ELSE Raise("ValueError", "day is out of range for month")
    ELSE Raise("ValueError", "Invalid isoformat string: " \o s)

\* date.isoformat()
isoformat(d) == Pad4(d.year) \o "-" \o Pad2(d.month) \o "-" \o Pad2(d.day)

\* The HH[:MM[:SS]] fields of a time, already split at the colons.
HmsTime(fields) ==
    IF /\ Len(fields) \in 1..3
       /\ \A i \in 1..Len(fields) : Len(fields[i]) = 2 /\ AllDigits(fields[i])
       /\ ParseNat(fields[1]) < 24
       /\ \A i \in 2..Len(fields) : ParseNat(fields[i]) < 60
    THEN Return([hour |-> ParseNat(fields[1]),
                 minute |-> IF Len(fields) >= 2 THEN ParseNat(fields[2]) ELSE 0])
    ELSE Raise("ValueError", "Invalid isoformat string")

\* HH[:MM[:SS[.fff[fff]]]], dotAt being where its "." is (0 if none).
ClockTime(clock, dotAt) ==
    IF dotAt = 0 THEN HmsTime(Split(clock, ":"))
    ELSE IF /\ dotAt = 9
            /\ Len(clock) - dotAt \in {3, 6}
            /\ AllDigits(SubSeq(clock, dotAt + 1, Len(clock)))
    THEN HmsTime(Split(SubSeq(clock, 1, dotAt - 1), ":"))
    ELSE Raise("ValueError", "Invalid isoformat string")

\* An HH:MM offset
OffsetOk(offset) ==
    /\ Len(offset) = 5
    /\ CharAt(offset, 3) = ":"
    /\ AllDigits(SubSeq(offset, 1, 2))
    /\ AllDigits(SubSeq(offset, 4, 5))
    /\ ParseNat(SubSeq(offset, 1, 2)) < 24
    /\ ParseNat(SubSeq(offset, 4, 5)) < 60

\* A time with its optional offset, signAt being where the offset's sign is (0 if none).
TimeWithOffset(t, signAt) ==
    IF signAt = 0 THEN ClockTime(t, Find(t, "."))
    ELSE IF OffsetOk(SubSeq(t, signAt + 1, Len(t)))
    THEN ClockTime(SubSeq(t, 1, signAt - 1), Find(SubSeq(t, 1, signAt - 1), "."))
    ELSE Raise("ValueError", "Invalid isoformat string")

\* The time part of datetime.fromisoformat: HH[:MM[:SS[.fff[fff]]]], then an
\* optional +HH:MM or -HH:MM offset.
TimeOfDay(t) ==
    TimeWithOffset(t, IF Find(t, "+") # 0 THEN Find(t, "+") ELSE Find(t, "-"))

\* datetime.fromisoformat(s): a date, then any one separator character and a time.
datetime_fromisoformat(s) ==
    IF Len(s) < 10 \/ Raised(fromisoformat(SubSeq(s, 1, 10))) THEN Raise("ValueError", "Invalid isoformat string")
    ELSE IF Len(s) = 10 THEN Return([hour |-> 0, minute |-> 0])
    ELSE IF Len(s) = 11 THEN Raise("ValueError", "Invalid isoformat string")
    ELSE TimeOfDay(SubSeq(s, 12, Len(s)))

\* dt.strftime("%I:%M %p")
strftime_IMp(t) ==
    LET h12 == IF t.hour % 12 = 0 THEN 12 ELSE t.hour % 12
    IN Pad2(h12) \o ":" \o Pad2(t.minute) \o " " \o (IF t.hour < 12 THEN "AM" ELSE "PM")

\* The try block of _format_time: the formatted time, or the timestamp as it
\* was when parsing it raised ValueError.
ClockOrOriginal(v, dt) ==
    IF Raised(dt) THEN Return(v) ELSE Return(JStr(strftime_IMp(dt.val)))

\* self._format_time(v) on a JSON value: "" for a falsy one, the clock time of an
\* ISO timestamp, the string itself when it does not parse; a truthy value that
\* is no string has no replace method, and that AttributeError is not caught.
_format_time(v) ==
    IF ~Truthy(v) THEN Return(JStr(""))
    ELSE IF ~IsStr(v) THEN Raise("AttributeError", "object has no attribute 'replace'")
    ELSE ClockOrOriginal(v, datetime_fromisoformat(Replace(v.str, "Z", "+00:00")))

----------------------------------------------------------------------------
(* The per-record transformations of the four OuraClient.get_*_data methods *)

SleepDurationKeys ==
    <<"awake_time", "deep_sleep_duration", "light_sleep_duration",
      "rem_sleep_duration", "total_sleep_duration", "time_in_bed">>

SleepTimeKeys == <<"bedtime_start", "bedtime_end">>

SleepPlainKeys ==
    {"day", "efficiency", "latency", "restless_periods", "average_breath",
     "average_heart_rate", "average_hrv", "lowest_heart_rate"}

Range(seq) == {seq[i] : i \in 1..Len(seq)}

\* The first exception a sequence of call results holds, in call order.
FirstRaised(calls) ==
    LET bad == {i \in 1..Len(calls) : Raised(calls[i])}
    IN calls[CHOOSE i \in bad : \A j \in bad : i <= j]

\* Lines 90-94: readiness = item.get("readiness", {}) and the two values read from it.
ReadinessOf(d) ==
    LET readiness == Get(d, "readiness", EmptyDict)
    IN IF ~Truthy(readiness)
       THEN Return([score |-> None, contributors |-> EmptyDict])
       ELSE IF ~IsObj(readiness)
       THEN Raise("AttributeError", "object has no attribute 'get'")
       ELSE Return([score |-> Get(readiness.obj, "score", None),
                    contributors |-> Get(readiness.obj, "contributors", EmptyDict)])

\* ReadinessKeys adding the two keys whatever the score is.
ReadinessKeysAlways(r) ==
    [k \in {"readiness_score", "readiness_contributors"} |->
        IF k = "readiness_score" THEN r.score ELSE r.contributors]

\* Lines 117-119: the readiness keys are added when the score is not None.
ReadinessKeys(r) ==
    IF ~IsNone(r.score)
    THEN [k \in {"readiness_score", "readiness_contributors"} |->
            IF k = "readiness_score" THEN r.score ELSE r.contributors]
    ELSE <<>>

\* Lines 70-94: the six durations, the two bedtimes and the readiness values
\* of one item, in the order the code computes them.
SleepCalls(d) ==
    [i \in 1..Len(SleepDurationKeys) |->
        FormatDurationValue(Get(d, SleepDurationKeys[i], JInt(0)))]
    \o [i \in 1..Len(SleepTimeKeys) |-> _format_time(Get(d, SleepTimeKeys[i], JStr("")))]
    \o <<ReadinessOf(d)>>

IndexOf(seq, x) == CHOOSE i \in 1..Len(seq) : seq[i] = x

\* Lines 97-121: the transformed item, from the values computed for it.
SleepItemFrom(d, calls) ==
    IF \E i \in 1..Len(calls) : Raised(calls[i]) THEN FirstRaised(calls)
    ELSE Return(JObj(
           ReadinessKeys(calls[Len(calls)].val)
           @@ [k \in Range(SleepDurationKeys \o SleepTimeKeys) |->
                 calls[IndexOf(SleepDurationKeys \o SleepTimeKeys, k)].val]
           @@ [k \in SleepPlainKeys |-> Get(d, k, None)]))

\* The loop body of OuraClient.get_sleep_data for one item of the data array.
TransformSleepItem(item) ==
    IF ~IsObj(item) THEN Raise("AttributeError", "object has no attribute 'get'")
    ELSE SleepItemFrom(item.obj, SleepCalls(item.obj))

\* Lines 210-213: total_sleep_duration, if the item has one, is formatted.
WithTotalFormatted(kept, total) ==
    IF "total_sleep_duration" \notin DOMAIN kept THEN Return(JObj(kept))
    ELSE IF Raised(total) THEN total
    ELSE Return(JObj([kept EXCEPT !["total_sleep_duration"] = total.val]))

\* The loop body of OuraClient.get_daily_sleep_data.
TransformDailySleepItem(item) ==
    IF ~IsObj(item) THEN Raise("AttributeError", "object has no attribute 'items'")
    ELSE WithTotalFormatted([k \in DOMAIN item.obj \ {"id"} |-> item.obj[k]],
                            FormatDurationValue(Get(item.obj, "total_sleep_duration", None)))

\* ReadinessKeeps testing the suffix without its underscore.
ReadinessKeepsLooseSuffix(k) == k # "id" /\ ~EndsWith(k, "timestamp")

\* The comprehension's filter in OuraClient.get_readiness_data.
ReadinessKeeps(k) == k # "id" /\ ~EndsWith(k, "_timestamp") /\ k # "timestamp"

\* The loop body of OuraClient.get_readiness_data.
TransformReadinessItem(item) ==
    IF ~IsObj(item) THEN Raise("AttributeError", "object has no attribute 'items'")
    ELSE Return(JObj([k \in {x \in DOMAIN item.obj : ReadinessKeeps(x)} |-> item.obj[k]]))

\* The loop body of OuraClient.get_resilience_data.
TransformResilienceItem(item) ==
    IF ~IsObj(item) THEN Raise("AttributeError", "object has no attribute 'items'")
    ELSE Return(JObj([k \in DOMAIN item.obj \ {"id"} |-> item.obj[k]]))

Endpoints == {"sleep", "daily_sleep", "daily_readiness", "daily_resilience"}

TransformItem(endpoint, item) ==
    CASE endpoint = "sleep" -> TransformSleepItem(item)
      [] endpoint = "daily_sleep" -> TransformDailySleepItem(item)
      [] endpoint = "daily_readiness" -> TransformReadinessItem(item)
      [] endpoint = "daily_resilience" -> TransformResilienceItem(item)

----------------------------------------------------------------------------
(* The four OuraClient.get_*_data methods, from the response on *)

\* An httpx response: its status code, its text, and what response.json() does
\* with that text (returns the decoded value or raises JSONDecodeError).
Response(status_code, text, json) ==
    [status_code |-> status_code, text |-> text, json |-> json]

NotJson == Raise("JSONDecodeError", "Expecting value: line 1 column 1 (char 0)")

\* StatusIsError accepting every 2xx status.
StatusIsErrorOutside2xx(status_code) == status_code < 200 \/ status_code > 299

\* "if response.status_code != 200"
StatusIsError(status_code) == status_code # 200

\* f"Error {response.status_code}: {response.text}"
StatusErrorMessage(resp) == "Error " \o ToString(resp.status_code) \o ": " \o resp.text

\* "for item in raw_data.get("data", [])": the items the loop visits.  A decoded
\* body that is no dict has no get; a dict or a string under "data" is iterated
\* by its keys or characters, which are strings; None and numbers do not iterate.
DataItems(raw_data) ==
    IF ~IsObj(raw_data) THEN Raise("AttributeError", "object has no attribute 'get'")
    ELSE LET data == Get(raw_data.obj, "data", [list |-> <<>>])
         IN IF IsList(data) THEN Return(data.list)
            ELSE IF IsObj(data)
            THEN Return([i \in 1..Cardinality(DOMAIN data.obj) |-> JStr("key")])
            ELSE IF IsStr(data)
            THEN Return([i \in 1..Len(data.str) |-> JStr(CharAt(data.str, i))])
            ELSE Raise("TypeError", "object is not iterable")

\* The transformed_data list, or the first exception a transformation raised.
Collect(calls) ==
    IF \E i \in 1..Len(calls) : Raised(calls[i]) THEN FirstRaised(calls)
    ELSE Return([i \in 1..Len(calls) |-> calls[i].val])

\* The loop: every item transformed, in order; the first exception ends it.
TransformAll(endpoint, items) ==
    Collect([i \in 1..Len(items) |-> TransformItem(endpoint, items[i])])

\* return {"data": transformed_data}
DataResult(out) == IF Raised(out) THEN out ELSE Return([data |-> out.val])

TransformData(endpoint, items) ==
    IF Raised(items) THEN items ELSE DataResult(TransformAll(endpoint, items.val))

\* What a get_*_data method does with the response of its GET: raise on a status
\* the check rejects, decode, transform, and return {"data": transformed_data}.
MethodResult(endpoint, resp) ==
    IF StatusIsError(resp.status_code) THEN Raise("Exception", StatusErrorMessage(resp))
    ELSE IF Raised(resp.json) THEN resp.json
    ELSE TransformData(endpoint, DataItems(resp.json.val))

----------------------------------------------------------------------------
(* The OuraClient object, parse_date and the tool functions' pieces *)

BASE_URL == "https://api.ouraring.com/v2/usercollection"

ToolNames ==
    {"get_sleep_data", "get_readiness_data", "get_resilience_data",
     "get_today_sleep_data", "get_today_readiness_data", "get_today_resilience_data"}

TodayTools ==
    {"get_today_sleep_data", "get_today_readiness_data", "get_today_resilience_data"}

\* The OuraClient method each tool function calls, named by the endpoint it GETs.
EndpointOf(t) ==
    CASE t \in {"get_sleep_data", "get_today_sleep_data"} -> "sleep"
      [] t \in {"get_readiness_data", "get_today_readiness_data"} -> "daily_readiness"
      [] t \in {"get_resilience_data", "get_today_resilience_data"} -> "daily_resilience"

\* The words each tool puts in its "Failed to fetch ..." message.
ToolNoun(t) ==
    CASE t = "get_sleep_data" -> "sleep data"
      [] t = "get_readiness_data" -> "readiness data"
      [] t = "get_resilience_data" -> "resilience data"
      [] t = "get_today_sleep_data" -> "today's sleep data"
      [] t = "get_today_readiness_data" -> "today's readiness data"
      [] t = "get_today_resilience_data" -> "today's resilience data"

Unset == [unset |-> TRUE]

IsClient(c) == "headers" \in DOMAIN c

\* OuraClient.__init__: the instance keeps its token, its headers and a new
\* httpx.Client of its own.
NewOuraClient(token) ==
    [access_token |-> token,
     headers |-> [Authorization |-> "Bearer " \o token.str],
     open |-> TRUE]

\* OuraClientInit with the headers kept in one place for every instance (a
\* class attribute): constructing a client re-points the clients that exist.
OuraClientInitShared(clients, i, token) ==
    [j \in DOMAIN clients |->
        IF j = i THEN NewOuraClient(token)
        ELSE IF IsClient(clients[j])
        THEN [clients[j] EXCEPT !.headers = NewOuraClient(token).headers]
        ELSE clients[j]]

\* Constructing an OuraClient for invocation i: only that invocation's object is set.
OuraClientInit(clients, i, token) == [clients EXCEPT ![i] = NewOuraClient(token)]

\* OuraClient.close
close(client) == [client EXCEPT !.open = FALSE]

\* A GET as it leaves a client: the URL, the headers and the query parameters.
GetRequest(client, endpoint, start, end, purpose) ==
    [url |-> BASE_URL \o "/" \o endpoint,
     headers |-> client.headers,
     params |-> [start_date |-> start, end_date |-> end],
     purpose |-> purpose]

\* The request validate_oura_token sends.
ProbeRequest(client) == GetRequest(client, "sleep", "2024-01-01", "2024-01-01", "probe")

parse_date(date_str) ==
    LET d == fromisoformat(date_str)
    IN IF Raised(d)
       THEN Raise("ValueError",
                  "Invalid date format: " \o date_str \o ". Expected format: YYYY-MM-DD")
       ELSE d

\* TokenMissing testing for None only.
TokenMissingNoneOnly(token) == IsNone(token)

\* "if not access_token" in create_oura_client
TokenMissing(token) == ~Truthy(token)

\* ProbeRejects taking every answer of the vendor for an acceptance.
ProbeRejectsNothing(resp) == FALSE

\* "if response.status_code == 401: return False" in validate_oura_token
ProbeRejects(resp) == resp.status_code = 401

\* ToolExcept without the second except clause.
ToolExceptValueErrorOnly(t, e) ==
    IF IsInstance(e.exc, "ValueError")
    THEN Return([error |-> e.msg, type |-> "invalid_token"])
    ELSE e

\* The two except clauses every tool function ends with; an exception neither
\* clause matches propagates to the caller.
ToolExcept(t, e) ==
    IF IsInstance(e.exc, "ValueError")
    THEN Return([error |-> e.msg, type |-> "invalid_token"])
    ELSE IF IsInstance(e.exc, "Exception")
    THEN Return([error |-> "Failed to fetch " \o ToolNoun(t) \o ": " \o e.msg,
                 type |-> "api_error"])
    ELSE e

\* The invocation ends: with the handler's response, or with the exception escaping.
EndPc(handled) == IF Raised(handled) THEN "raised" ELSE "done"

EndValue(handled) == IF Raised(handled) THEN handled ELSE handled.val

----------------------------------------------------------------------------
(* The tool invocations *)

Invocations == 1..NInv

Init ==
    /\ pc = [i \in Invocations |-> "idle"]
    /\ tool = [i \in Invocations |-> ""]
    /\ access_token = [i \in Invocations |-> None]
    /\ start_date = [i \in Invocations |-> ""]
    /\ end_date = [i \in Invocations |-> ""]
    /\ probe = [i \in Invocations |-> Unset]
    /\ oura = [i \in Invocations |-> Unset]
    /\ sent = [i \in Invocations |-> <<>>]
    /\ response = [i \in Invocations |-> Unset]
    /\ result = [i \in Invocations |-> Unset]
    /\ cause = [i \in Invocations |-> "none"]
    /\ fnPc = "off"
    /\ fnIn = Unset
    /\ fnOut = Unset

Last(q) == q[Len(q)]

\* An exception e reaches the tool function's except clauses: the invocation ends.
End(i, handled, why) ==
    /\ pc' = [pc EXCEPT ![i] = EndPc(handled)]
    /\ result' = [result EXCEPT ![i] = EndValue(handled)]
    /\ cause' = [cause EXCEPT ![i] = why]

Fail(i, t, e, why) == End(i, ToolExcept(t, e), why)

\* The framework calls tool t.  create_oura_client refuses a missing token;
\* otherwise validate_oura_token builds its own OuraClient for the probe.
Enter(i, t, token, start, end) ==
    /\ pc[i] = "idle"
    /\ tool' = [tool EXCEPT ![i] = t]
    /\ access_token' = [access_token EXCEPT ![i] = token]
    /\ start_date' = [start_date EXCEPT ![i] = start]
    /\ end_date' = [end_date EXCEPT ![i] = end]
    /\ IF TokenMissing(token)
       THEN /\ Fail(i, t, Raise("ValueError", "Access token is required"), "empty_token")
            /\ UNCHANGED probe
       ELSE /\ probe' = OuraClientInit(probe, i, token)
            /\ pc' = [pc EXCEPT ![i] = "validate"]
            /\ UNCHANGED <<result, cause>>
    /\ UNCHANGED <<oura, sent, response, fnVars>>

\* get_sleep_data, get_readiness_data, get_resilience_data
CallRange(i, t, token, start, end) ==
    /\ t \notin TodayTools
    /\ Enter(i, t, token, start, end)

\* get_today_sleep_data, get_today_readiness_data, get_today_resilience_data
CallToday(i, t, token) ==
    /\ t \in TodayTools
    /\ Enter(i, t, token, "", "")

\* validate_oura_token issues its GET on the probe client.
SendProbe(i) ==
    /\ pc[i] = "validate"
    /\ sent' = [sent EXCEPT ![i] = Append(@, ProbeRequest(probe[i]))]
    /\ pc' = [pc EXCEPT ![i] = "probing"]
    /\ UNCHANGED <<tool, access_token, start_date, end_date, probe, oura,
                   response, result, cause, fnVars>>

\* The probe is answered: the probe client is closed; a 401 makes
\* create_oura_client raise, any other status lets it build the data client.
ProbeReturns(i, resp) ==
    /\ pc[i] = "probing"
    /\ response' = [response EXCEPT ![i] = resp]
    /\ probe' = [probe EXCEPT ![i] = close(@)]
    /\ IF ProbeRejects(resp)
       THEN /\ Fail(i, tool[i], Raise("ValueError",
                   "Invalid Oura API token. Please check your Personal Access Token and try again."),
                   "probe_rejected")
            /\ UNCHANGED oura
       ELSE /\ oura' = OuraClientInit(oura, i, access_token[i])
            /\ pc' = [pc EXCEPT ![i] = "created"]
            /\ UNCHANGED <<result, cause>>
    /\ UNCHANGED <<tool, access_token, start_date, end_date, sent, fnVars>>

\* The probe's GET raises (timeout, DNS, connection refused): validate_oura_token
\* swallows the exception and returns False, before reaching client.close().
ProbeFails(i, class) ==
    /\ pc[i] = "probing"
    /\ Fail(i, tool[i], Raise("ValueError",
            "Invalid Oura API token. Please check your Personal Access Token and try again."),
            "probe_transport")
    /\ UNCHANGED <<tool, access_token, start_date, end_date, probe, oura, sent,
                   response, fnVars>>

\* start = parse_date(start_date); end = parse_date(end_date)
DatePair(start, end) ==
    IF Raised(start) THEN start
    ELSE IF Raised(end) THEN end
    ELSE Return(<<start.val, end.val>>)

\* The dates the method is called with: the parsed arguments, or date.today().
FetchDates(i, today) ==
    IF tool[i] \in TodayTools THEN Return(<<today, today>>)
    ELSE DatePair(parse_date(start_date[i]), parse_date(end_date[i]))

\* The tool function from the parsed dates on: a date that did not parse ends
\* it, otherwise the get_*_data method issues its GET.
FetchWith(i, dates) ==
    /\ IF Raised(dates)
       THEN /\ Fail(i, tool[i], dates, "bad_date")
            /\ UNCHANGED sent
       ELSE /\ sent' = [sent EXCEPT ![i] =
                          Append(@, GetRequest(oura[i], EndpointOf(tool[i]),
                                               isoformat(dates.val[1]),
                                               isoformat(dates.val[2]), "data"))]
            /\ pc' = [pc EXCEPT ![i] = "fetching"]
            /\ UNCHANGED <<result, cause>>
    /\ UNCHANGED <<tool, access_token, start_date, end_date, probe, oura,
                   response, fnVars>>

\* With the data client built, the tool function parses its dates and the
\* get_*_data method issues its GET.
Fetch(i, today) ==
    /\ pc[i] = "created"
    /\ FetchWith(i, FetchDates(i, today))

\* The tool function from the method's outcome r on: an exception goes to the
\* except clauses, a return value is returned after oura_client.close().
Finish(i, resp, r) ==
    /\ IF Raised(r)
       THEN /\ Fail(i, tool[i], r, IF StatusIsError(resp.status_code)
                                   THEN "status" ELSE "payload")
            /\ UNCHANGED oura
       ELSE /\ oura' = [oura EXCEPT ![i] = close(@)]
            /\ pc' = [pc EXCEPT ![i] = "done"]
            /\ result' = [result EXCEPT ![i] = r.val]
            /\ UNCHANGED cause
    /\ UNCHANGED <<tool, access_token, start_date, end_date, probe, sent, fnVars>>

\* The data request is answered: the method raises or returns, and only after a
\* return does the tool function reach oura_client.close().
FetchReturns(i, resp) ==
    /\ pc[i] = "fetching"
    /\ response' = [response EXCEPT ![i] = resp]
    /\ Finish(i, resp, MethodResult(EndpointOf(tool[i]), resp))

\* FetchFails issuing the failed request once more instead of giving up.
FetchFailsRetry(i, class) ==
    /\ pc[i] = "fetching"
    /\ sent' = [sent EXCEPT ![i] = Append(@, Last(@))]
    /\ UNCHANGED <<pc, tool, access_token, start_date, end_date, probe, oura,
                   response, result, cause, fnVars>>

\* The data request's GET raises (timeout, DNS, connection refused).
FetchFails(i, class) ==
    /\ pc[i] = "fetching"
    /\ Fail(i, tool[i], Raise(class, "transport failure"), "fetch_transport")
    /\ UNCHANGED <<tool, access_token, start_date, end_date, probe, oura, sent,
                   response, fnVars>>

----------------------------------------------------------------------------
(* The callers and the vendor: the inputs the model draws *)

Tokens == {None, JStr(""), JStr("tokA"), JStr("tokB")}

DateStrs == {"2024-01-01", "2024-03-05", "2024-02-30", "not-a-date"}

Todays == {[year |-> 2024, month |-> 1, day |-> 1], [year |-> 2025, month |-> 6, day |-> 15]}

TransportErrors == {"ConnectError", "ReadTimeout"}

Statuses == {200, 201, 299, 300, 401, 500}

Texts == {"", "denied"}

\* Sequences over S of length at most n
SeqsUpTo(S, n) == UNION {[1..k -> S] : k \in 0..n}

\* Items a vendor payload's data array may hold.
SampleItems ==
    {JObj([id |-> JStr("abc"), day |-> JStr("2024-01-01"),
           timestamp |-> JStr("2024-01-01T07:00:00Z"),
           total_sleep_duration |-> JInt(27000),
           readiness |-> JObj([score |-> JInt(70)])]),
     JObj([id |-> JStr("def"), total_sleep_duration |-> None, score |-> JInt(82)]),
     JInt(1)}

\* What response.json() gives for the bodies the vendor may send.
Payloads ==
    {NotJson,
     Return([list |-> <<>>]),
     Return(JObj(<<>>)),
     Return(JObj([data |-> None]))}
    \cup {Return(JObj([data |-> [list |-> l]])) : l \in SeqsUpTo(SampleItems, MaxRecords)}

\* The answers the vendor may give to a data request.
VendorResponses == {Response(st, tx, js) : st \in Statuses, tx \in Texts, js \in Payloads}

\* The answers the vendor may give to the probe (only the status is read).
ProbeResponses == {Response(st, "", NotJson) : st \in Statuses}

\* What invocation i may do next, over every input.
Step(i) ==
        \/ \E t \in ToolNames, token \in Tokens, start \in DateStrs, end \in DateStrs :
               CallRange(i, t, token, start, end)
        \/ \E t \in ToolNames, token \in Tokens : CallToday(i, t, token)
        \/ SendProbe(i)
        \/ \E resp \in ProbeResponses : ProbeReturns(i, resp)
        \/ \E class \in TransportErrors : ProbeFails(i, class)
        \/ \E today \in Todays : Fetch(i, today)
        \/ \E resp \in VendorResponses : FetchReturns(i, resp)
        \/ \E class \in TransportErrors : FetchFails(i, class)

\* One invocation at a time.
Next == \E i \in {1} : Step(i)

Spec == Init /\ [][Next]_vars

----------------------------------------------------------------------------
(* Concurrent invocations against a vendor that answers by bearer token *)

ConcTools == {"get_readiness_data", "get_today_resilience_data"}

ConcTokens == {JStr("tokA"), JStr("tokB")}

ConcDates == {"2024-03-05"}

ConcTodays == {[year |-> 2025, month |-> 6, day |-> 15]}

\* The records the vendor holds for the user a bearer token belongs to.
VendorData(authorization) ==
    IF authorization = "Bearer tokA"
    THEN <<JObj([id |-> JStr("a1"), score |-> JInt(71)])>>
    ELSE <<JObj([id |-> JStr("b1"), score |-> JInt(82)]),
           JObj([id |-> JStr("b2"), score |-> JInt(83)])>>

\* The vendor's answers to a request: the data of the token's user, or a
\* server error.
VendorReplies(req) ==
    {Response(200, "ok",
              Return(JObj([data |-> [list |-> VendorData(req.headers.Authorization)]]))),
     Response(500, "oops", NotJson)}

NextConc ==
    \E i \in Invocations :
        \/ \E t \in ConcTools, token \in ConcTokens, start \in ConcDates, end \in ConcDates :
               CallRange(i, t, token, start, end)
        \/ \E t \in ConcTools, token \in ConcTokens : CallToday(i, t, token)
        \/ SendProbe(i)
        \/ \E st \in {200, 401} : ProbeReturns(i, Response(st, "", NotJson))
        \/ ProbeFails(i, "ReadTimeout")
        \/ \E today \in ConcTodays : Fetch(i, today)
        \/ /\ pc[i] = "fetching"
           /\ \E resp \in VendorReplies(Last(sent[i])) : FetchReturns(i, resp)
        \/ FetchFails(i, "ReadTimeout")

SpecConc == Init /\ [][NextConc]_vars

----------------------------------------------------------------------------
(* The pure functions applied to drawn inputs: _format_duration on integers,
   and each get_*_data method on responses holding records of its endpoint *)

\* The value a raw record holds under key k.
RawValue(k) ==
    CASE k = "id" -> JStr("abc")
      [] k = "score" -> JInt(80)
      [] k = "day" -> JStr("2024-01-01")
      [] k = "level" -> JStr("solid")
      [] k = "total_sleep_duration" -> JInt(27000)
      [] k = "bedtime_start" -> JStr("2024-01-01T22:30:00Z")
      [] OTHER -> JStr("2024-01-01T07:00:00+00:00")

RecordsOver(keys) == {[k \in K |-> RawValue(k)] : K \in SUBSET keys}

ReadinessSamples ==
    {JObj(r) : r \in RecordsOver({"id", "timestamp", "bedtime_timestamp",
                                  "score", "xtimestamp"})}

\* What a sleep record may hold under "readiness" (Unset: the key is absent).
ReadinessVariants ==
    {Unset, None, EmptyDict, JInt(0), JStr("n/a"),
     JObj([score |-> JInt(70)]),
     JObj([score |-> JInt(0), contributors |-> JObj([hrv_balance |-> JInt(5)])]),
     JObj([contributors |-> JObj([hrv_balance |-> JInt(5)])]),
     JObj([score |-> None, contributors |-> EmptyDict])}

WithReadiness(r, v) ==
    IF v = Unset THEN r ELSE [k \in {"readiness"} |-> v] @@ r

SleepSamples ==
    {JObj(WithReadiness(r, v)) :
        r \in {<<>>, [k \in {"id", "day", "total_sleep_duration", "bedtime_start"} |->
                        RawValue(k)]},
        v \in ReadinessVariants}
    \cup {JObj([awake_time |-> None, readiness |-> JObj([score |-> JInt(70)])])}

DailySleepSamples ==
    {JObj(r) : r \in RecordsOver({"id", "total_sleep_duration"})}
    \cup {JObj([total_sleep_duration |-> None])}

ResilienceSamples == {JObj(r) : r \in RecordsOver({"id", "level"})}

SamplesFor(endpoint) ==
    CASE endpoint = "sleep" -> SleepSamples
      [] endpoint = "daily_sleep" -> DailySleepSamples
      [] endpoint = "daily_readiness" -> ReadinessSamples
      [] endpoint = "daily_resilience" -> ResilienceSamples

DataPayload(items) == Return(JObj([data |-> [list |-> items]]))

\* The short and undecodable bodies every status is tried with.
ShortPayloads ==
    {NotJson, DataPayload(<<JObj([id |-> JStr("abc"), score |-> JInt(80)])>>)}

\* The inputs the functions are applied to: every integer up to MaxSeconds in
\* magnitude for _format_duration; for each method every data array of the
\* endpoint's records under status 200, and every status with a short or
\* undecodable body.
FnInput(x) ==
    \/ \E n \in (0 - MaxSeconds)..MaxSeconds : x = [fn |-> "format_duration", seconds |-> n]
    \/ \E e \in Endpoints, k \in 0..MaxRecords :
         \E l \in [1..k -> SamplesFor(e)] :
            x = [fn |-> "method", endpoint |-> e,
                 response |-> Response(200, "body", DataPayload(l))]
    \/ \E e \in Endpoints, st \in Statuses, tx \in Texts, js \in ShortPayloads :
            x = [fn |-> "method", endpoint |-> e, response |-> Response(st, tx, js)]

InitFn ==
    /\ pc = [i \in Invocations |-> "idle"]
    /\ tool = [i \in Invocations |-> ""]
    /\ access_token = [i \in Invocations |-> None]
    /\ start_date = [i \in Invocations |-> ""]
    /\ end_date = [i \in Invocations |-> ""]
    /\ probe = [i \in Invocations |-> Unset]
    /\ oura = [i \in Invocations |-> Unset]
    /\ sent = [i \in Invocations |-> <<>>]
    /\ response = [i \in Invocations |-> Unset]
    /\ result = [i \in Invocations |-> Unset]
    /\ cause = [i \in Invocations |-> "none"]
    /\ fnPc = "ready"
    /\ FnInput(fnIn)
    /\ fnOut = Unset

ApplyFormatDuration ==
    /\ fnPc = "ready"
    /\ fnIn.fn = "format_duration"
    /\ fnOut' = _format_duration(fnIn.seconds)
    /\ fnPc' = "done"
    /\ UNCHANGED <<fnIn, toolVars>>

ApplyMethod ==
    /\ fnPc = "ready"
    /\ fnIn.fn = "method"
    /\ fnOut' = MethodResult(fnIn.endpoint, fnIn.response)
    /\ fnPc' = "done"
    /\ UNCHANGED <<fnIn, toolVars>>

NextFn == ApplyFormatDuration \/ ApplyMethod

SpecFn == InitFn /\ [][NextFn]_vars

----------------------------------------------------------------------------
(* Claims about the pure functions, under SpecFn *)

FnDone(fn) == fnPc = "done" /\ fnIn.fn = fn

\* Reading a duration string back: "N hour(s)", "N minute(s)", "N second(s)"
\* parts joined by ", ", a missing component counting as 0.
UnitSeconds(noun) ==
    CASE noun \in {"hour", "hours"} -> 3600
      [] noun \in {"minute", "minutes"} -> 60
      [] noun \in {"second", "seconds"} -> 1

PartSeconds(part) ==
    LET words == Split(part, " ")
    IN ParseNat(words[1]) * UnitSeconds(words[2])

RECURSIVE SumSeconds(_)
SumSeconds(parts) ==
    IF parts = <<>> THEN 0 ELSE PartSeconds(Head(parts)) + SumSeconds(Tail(parts))

Resum(text) == SumSeconds(Split(text, ", "))

RawItems == fnIn.response.json.val.obj.data.list

MethodReturned(endpoint) ==
    /\ FnDone("method")
    /\ fnIn.endpoint = endpoint
    /\ ~Raised(fnOut)

HoistedKeys == {"readiness_score", "readiness_contributors"}

HasReadinessObject(item) ==
    "readiness" \in DOMAIN item.obj /\ IsObj(item.obj["readiness"])

HasScoredReadiness(item) ==
    /\ HasReadinessObject(item)
    /\ "score" \in DOMAIN item.obj["readiness"].obj
    /\ ~IsNone(item.obj["readiness"].obj["score"])

\* C9 as stated: a transformed sleep record has readiness_score and
\* readiness_contributors exactly when the raw record has a readiness object.
C9_HoistIffReadinessObject ==
    MethodReturned("sleep") =>
        \A n \in 1..Len(RawItems) :
            /\ HoistedKeys \subseteq DOMAIN fnOut.val.data[n].obj
                 <=> HasReadinessObject(RawItems[n])
            /\ ~HasReadinessObject(RawItems[n])
                 => HoistedKeys \cap DOMAIN fnOut.val.data[n].obj = {}

\* C9, amended: a transformed sleep record has readiness_score and
\* readiness_contributors (holding readiness.score, and readiness.contributors
\* or {} when that is absent) exactly when the raw record has a readiness
\* object whose score is present and not null; otherwise it has neither key,
\* in particular when the raw record has no readiness key.
C9_HoistIffScoredReadiness ==
    MethodReturned("sleep") =>
        /\ Len(fnOut.val.data) = Len(RawItems)
        /\ \A n \in 1..Len(RawItems) :
            LET raw == RawItems[n]
                out == fnOut.val.data[n].obj
            IN /\ HoistedKeys \subseteq DOMAIN out <=> HasScoredReadiness(raw)
               /\ ~HasScoredReadiness(raw) => HoistedKeys \cap DOMAIN out = {}
               /\ "readiness" \notin DOMAIN raw.obj => HoistedKeys \cap DOMAIN out = {}
               /\ HasScoredReadiness(raw) =>
                    /\ out["readiness_score"] = raw.obj["readiness"].obj["score"]
                    /\ out["readiness_contributors"] =
                         Get(raw.obj["readiness"].obj, "contributors", EmptyDict)

C9_Witness ==
    /\ MethodReturned("sleep")
    /\ Len(RawItems) = 2
    /\ HasScoredReadiness(RawItems[1])
    /\ HoistedKeys \subseteq DOMAIN fnOut.val.data[1].obj
    /\ "readiness" \notin DOMAIN RawItems[2].obj
    /\ HoistedKeys \cap DOMAIN fnOut.val.data[2].obj = {}

HasTimestampSuffix(k) ==
    \E n \in 1..Len(k) : SubSeq(k, n, Len(k)) = "_timestamp"

\* C10: each transformed daily_readiness record has exactly the raw record's
\* keys other than id, timestamp and those ending in _timestamp, each with its
\* raw value, and the output array has one record per raw record, in order.
C10_ReadinessPassThrough ==
    MethodReturned("daily_readiness") =>
        /\ Len(fnOut.val.data) = Len(RawItems)
        /\ \A n \in 1..Len(RawItems) :
            LET raw == RawItems[n].obj
                out == fnOut.val.data[n].obj
            IN /\ DOMAIN out = {k \in DOMAIN raw :
                                  k \notin {"id", "timestamp"} /\ ~HasTimestampSuffix(k)}
               /\ \A k \in DOMAIN out : out[k] = raw[k]

C10_Witness ==
    /\ MethodReturned("daily_readiness")
    /\ Len(RawItems) = 2
    /\ DOMAIN RawItems[1].obj = {"id", "timestamp", "bedtime_timestamp", "score"}
    /\ fnOut.val.data[1] = JObj([score |-> JInt(80)])
    /\ DOMAIN RawItems[2].obj = {"xtimestamp"}
    /\ DOMAIN fnOut.val.data[2].obj = {"xtimestamp"}

\* The error a fetch raises for a rejected status: it carries the status code
\* and the response body.
IsStatusError(out, resp) ==
    /\ Raised(out)
    /\ out.exc = "Exception"
    /\ Find(out.msg, ToString(resp.status_code)) # 0
    /\ EndsWith(out.msg, resp.text)

Decodes(resp) == ~Raised(resp.json)

\* C4 as stated: for each of the four endpoints the fetch fails with an error
\* carrying the status and the body exactly when the status is outside
\* 200..299, and every 2xx response has its records transformed and returned.
C4_ErrorIffNot2xx ==
    FnDone("method") =>
        /\ IsStatusError(fnOut, fnIn.response)
             <=> fnIn.response.status_code \notin 200..299
        /\ (fnIn.response.status_code \in 200..299 /\ Decodes(fnIn.response))
             => ~Raised(fnOut)

\* C4, amended: for each of the four endpoints the fetch fails with an error
\* carrying the status and the body exactly when the status is not 200 (201..299
\* included); a 200 response is never reported that way: its body is decoded and
\* its records are transformed and returned, one per raw record, unless the
\* decoding or a transformation itself raises.
C4_ErrorIffNot200 ==
    FnDone("method") =>
        /\ IsStatusError(fnOut, fnIn.response) <=> fnIn.response.status_code # 200
        /\ (fnIn.response.status_code = 200 /\ Decodes(fnIn.response))
             => IF Raised(fnOut) THEN fnOut.exc \in {"TypeError", "AttributeError"}
                ELSE Len(fnOut.val.data) = Len(RawItems)
        /\ (fnIn.response.status_code = 200 /\ ~Decodes(fnIn.response))
             => Raised(fnOut) /\ fnOut.exc = "JSONDecodeError"

C4_Witness ==
    /\ FnDone("method")
    /\ fnIn.endpoint = "daily_sleep"
    /\ fnIn.response.status_code = 201
    /\ fnIn.response.text = "denied"
    /\ Decodes(fnIn.response)
    /\ fnOut = Raise("Exception", "Error 201: denied")

----------------------------------------------------------------------------
(* Claims about the tool invocations, under Spec *)

IsDataResponse(r) == DOMAIN r = {"data"} /\ DOMAIN r.data = 1..Len(r.data)

IsErrorResponse(r) == "error" \in DOMAIN r /\ r.error \in STRING

Running(i) == pc[i] \in {"validate", "probing", "created", "fetching"}

\* C1: whatever the tool, token, dates, probe outcome, fetch outcome and
\* payload, an invocation ends by returning {data: [...]} or {error: message};
\* no exception escapes the tool function, nothing is returned before the end,
\* and an invocation that has not ended can always go on.
C1_NoExceptionEscapes ==
    \A i \in Invocations :
        /\ pc[i] \in {"idle", "validate", "probing", "created", "fetching", "done"}
        /\ Running(i) => ENABLED Step(i)
        /\ pc[i] = "done" => IsDataResponse(result[i]) \/ IsErrorResponse(result[i])
        /\ pc[i] # "done" => result[i] = Unset

C1_Witness ==
    /\ pc[1] = "done"
    /\ cause[1] = "payload"
    /\ response[1].status_code = 200
    /\ IsErrorResponse(result[1])
    /\ result[1].type = "api_error"

ClientsOf(i) == {c \in {probe[i], oura[i]} : IsClient(c)}

\* C2: every HTTP client an invocation constructed (the probe's and the one
\* create_oura_client returns) is closed by the time the invocation returns,
\* on the success path and on every failure path.
C2_AllClientsClosed ==
    \A i \in Invocations : pc[i] = "done" => \A c \in ClientsOf(i) : ~c.open

Purposes(i) == [k \in 1..Len(sent[i]) |-> sent[i][k].purpose]

\* C3 as stated: an invocation performs at most one outbound GET.
C3_AtMostOneGet == \A i \in Invocations : Len(sent[i]) <= 1

\* C3, amended: an invocation performs at most two outbound GETs, first the
\* token probe of validate_oura_token and then at most one data request; each
\* is issued once, and neither is issued again after it failed.
C3_ProbeThenOneFetch ==
    \A i \in Invocations :
        /\ Purposes(i) \in {<<>>, <<"probe">>, <<"probe", "data">>}
        /\ cause[i] \in {"probe_rejected", "probe_transport"} => Purposes(i) = <<"probe">>
        /\ cause[i] \in {"status", "fetch_transport"} => Purposes(i) = <<"probe", "data">>

C3_Witness ==
    /\ pc[1] = "done"
    /\ cause[1] = "fetch_transport"
    /\ Len(sent[1]) = 2
    /\ sent[1][1].url = sent[1][2].url
    /\ sent[1][1].params = sent[1][2].params

EmptyOrMissing(token) == token = None \/ token = JStr("")

\* C5: an empty or missing access token yields an {error: ...} response, and
\* that invocation constructs no HTTP client and sends no request.
C5_EmptyTokenRefused ==
    \A i \in Invocations :
        (pc[i] # "idle" /\ EmptyOrMissing(access_token[i])) =>
            /\ pc[i] = "done"
            /\ IsErrorResponse(result[i])
            /\ ClientsOf(i) = {}
            /\ sent[i] = <<>>

C5_Witness ==
    /\ pc[1] = "done"
    /\ tool[1] = "get_today_resilience_data"
    /\ access_token[1] = JStr("")
    /\ result[1].error = "Access token is required"

\* The kind a response's "type" label stands for.
ReportedKind(r) ==
    CASE r.type = "invalid_token" -> "InvalidToken"
      [] r.type = "api_error" -> "ApiError"

\* The kind the cause of a failure is to be reported as.
KindOfCause(why) ==
    CASE why \in {"empty_token", "probe_rejected"} -> "InvalidToken"
      [] why = "bad_date" -> "InvalidDateFormat"
      [] why = "status" -> "ApiError"
      [] why \in {"probe_transport", "fetch_transport"} -> "NetworkError"

\* C6: the error kind a tool reports identifies the cause: InvalidToken for an
\* empty or probe-rejected token, InvalidDateFormat for a non-ISO date,
\* ApiError for a rejected vendor status, NetworkError for a transport failure
\* during the probe or the fetch; no two causes share a label.
C6_KindIdentifiesCause ==
    \A i \in Invocations :
        (pc[i] = "done" /\ IsErrorResponse(result[i]) /\ cause[i] # "payload") =>
            ReportedKind(result[i]) = KindOfCause(cause[i])

----------------------------------------------------------------------------
(* Claims about concurrent invocations, under SpecConc *)

Bearer(i) == "Bearer " \o access_token[i].str

Local(i) ==
    <<pc[i], tool[i], access_token[i], start_date[i], end_date[i], probe[i],
      oura[i], sent[i], response[i], result[i], cause[i]>>

OwnTokenOnEveryRequest ==
    \A i \in Invocations :
        \A k \in 1..Len(sent[i]) : sent[i][k].headers.Authorization = Bearer(i)

OwnDataReturned ==
    \A i \in Invocations :
        (pc[i] = "done" /\ IsDataResponse(result[i])) =>
            /\ response[i] \in VendorReplies(Last(sent[i]))
            /\ result[i].data = TransformAll(EndpointOf(tool[i]), VendorData(Bearer(i))).val

OneInvocationPerStep ==
    \E i \in Invocations : \A j \in Invocations \ {i} : Local(j)' = Local(j)

\* C7: with invocations running concurrently under different tokens, in every
\* interleaving each request an invocation sends carries that invocation's
\* token, the response it returns comes from the vendor's answer to its own
\* request, and no step of one invocation changes another's state.
C7_Isolation ==
    /\ [](OwnTokenOnEveryRequest /\ OwnDataReturned)
    /\ [][OneInvocationPerStep]_vars

C7_Witness ==
    /\ pc[1] = "done" /\ pc[2] = "done"
    /\ access_token[1] # access_token[2]
    /\ IsDataResponse(result[1]) /\ IsDataResponse(result[2])
    /\ result[1] # result[2]

\* The probe of invocation i is over and did not accept the token: it was
\* answered with 401, or its GET raised and left no response.
ProbeRefused(i) ==
    /\ sent[i] # <<>>
    /\ pc[i] # "probing"
    /\ \/ response[i] = Unset
       \/ Len(sent[i]) = 1 /\ response[i].status_code = 401

BothDatesParse(i) ==
    tool[i] \notin TodayTools =>
        /\ ~Raised(parse_date(start_date[i]))
        /\ ~Raised(parse_date(end_date[i]))

\* What has happened in every state where a data request is among those sent.
DataRequestInOrder ==
    \A i \in Invocations :
        /\ sent[i] # <<>> =>
              /\ ~EmptyOrMissing(access_token[i])
              /\ sent[i][1].purpose = "probe"
        /\ (pc[i] \notin {"idle", "validate"} /\ ~EmptyOrMissing(access_token[i])) =>
              sent[i] # <<>>
        /\ \A k \in 1..Len(sent[i]) :
              sent[i][k].purpose = "data" =>
                  /\ k = 2
                  /\ ~probe[i].open
                  /\ IsClient(oura[i])
                  /\ response[i] # Unset
                  /\ BothDatesParse(i)
        /\ ProbeRefused(i) =>
              /\ Purposes(i) = <<"probe">>
              /\ pc[i] = "done"
              /\ IsErrorResponse(result[i])
              /\ result[i].type = "invalid_token"

\* The step that sends the data request, and the step that ends the probe.
DataRequestAfterAcceptedProbe ==
    \A i \in Invocations :
        /\ (Len(sent'[i]) > Len(sent[i]) /\ Last(sent'[i]).purpose = "data") =>
              /\ pc[i] = "created"
              /\ Purposes(i) = <<"probe">>
              /\ response[i] # Unset
              /\ response[i].status_code # 401
              /\ ~probe[i].open
              /\ BothDatesParse(i)
        /\ (pc[i] = "probing" /\ pc'[i] # "probing"
               /\ (response'[i] = Unset \/ response'[i].status_code = 401)) =>
              /\ pc'[i] = "done"
              /\ sent'[i] = sent[i]
              /\ IsErrorResponse(result'[i])
              /\ result'[i].type = "invalid_token"
        /\ pc[i] \in {"done", "raised"} => sent'[i] = sent[i]

\* C11: within an invocation the data request is sent only after the probe has
\* been answered with a status other than 401; after a probe answered with 401
\* or a probe whose GET raised no data request is ever sent and the invocation
\* returns an invalid_token error; and a data request comes after the check for
\* a missing token, the probe and, for the date-range tools, the successful
\* parsing of both dates, in that order.
C11_DataAfterAcceptedProbe ==
    /\ []DataRequestInOrder
    /\ [][DataRequestAfterAcceptedProbe]_vars

C11_Witness ==
    /\ pc[1] = "fetching"
    /\ tool[1] = "get_sleep_data"
    /\ Purposes(1) = <<"probe", "data">>
    /\ response[1].status_code = 500
    /\ ~probe[1].open
    /\ sent[1][2].params = [start_date |-> "2024-01-01", end_date |-> "2024-03-05"]

====
